---- MODULE Spec2Model ----
(***************************************************************************)
(* ButtonExecutor: a push button toggles a sketch between idle and         *)
(* executing; while executing, periodic callbacks registered through the   *)
(* executor run from a Timer.  The model follows src/ButtonExecutor.cpp.   *)
(*                                                                         *)
(* The sketch's hooks (sketchSetupCallback, sketchStartCallback,           *)
(* sketchStopCallback and the periodic callbacks) are user code that may   *)
(* call the public operations again, so a handler that invokes a hook is   *)
(* split at the invocation: the part before the call is one action, the    *)
(* hook body is any sequence of public operations, and hookReturn runs the *)
(* rest of the handler.  stack holds the hooks that are running.           *)
(***************************************************************************)
EXTENDS Integers, Sequences, FiniteSets, TLC

\* Capacity of the Timer (Timer.h sets 10; the model is checked with a
\* smaller table, every statement is parametric in it).
MAX_NUMBER_OF_EVENTS == 3

\* Deepest nesting of running hooks that is explored.
MaxDepth == 2

\* Highest frequency tried for callbackEveryByHertz.
MaxHertz == 1000

\* One event of the timer is left to the button.
MaxCallbacksNoneLeft == MAX_NUMBER_OF_EVENTS

MAX_NUMBER_OF_CALLBACKS == MAX_NUMBER_OF_EVENTS - 1
BUTTON_INTERVAL_MS == 10
TIMER_NOT_AN_EVENT == -2
NO_TIMER_AVAILABLE == -1
CALLBACK_STOPPED == 1
CALLBACK_NOT_INSTALLED == TIMER_NOT_AN_EVENT
LOW == 0
HIGH == 1

Levels == {LOW, HIGH}
Indexes == 0 .. (MAX_NUMBER_OF_EVENTS - 1)
ScannedIndexes == 0 .. (MAX_NUMBER_OF_CALLBACKS - 1)
\* Arguments tried for stopCallback: both sentinels, every timer id, and one
\* id past the table.
CallbackIds == (TIMER_NOT_AN_EVENT) .. MAX_NUMBER_OF_EVENTS
Periods == {BUTTON_INTERVAL_MS, 250}
Frequencies == {3, 4}
AllFrequencies == 1 .. MaxHertz

VARIABLES
  setupCalled,               \* setup() has been entered
  expectedButtonPressState,  \* _expectedButtonPressState
  oldButtonState,            \* _oldButtonState
  isExecuting,               \* _isExecuting
  callbackReferences,        \* _callbackReferences[MAX_NUMBER_OF_EVENTS]
  timerEvents,               \* _timer: what each event of the table runs
  stack,                     \* hooks that are running, innermost last
  last,                      \* what the latest step did (observation)
  pressOdd,                  \* an odd number of press events so far
  abortUsed,                 \* abortExecution has been called
  lastHook,                  \* the start or stop hook invoked latest
  stale                      \* the timer id that was cancelled first
                             \* (NO_TIMER_AVAILABLE: not recorded,
                             \* TIMER_NOT_AN_EVENT: none so far)

vars == <<setupCalled, expectedButtonPressState, oldButtonState, isExecuting,
          callbackReferences, timerEvents, stack, last, pressOdd, abortUsed,
          lastHook, stale>>

----------------------------------------------------------------------------
\* Pure parts of the handlers.

\* C's logical not on a level.
NotDropped(level) == level

Not(level) == IF level = LOW THEN HIGH ELSE LOW

\* The condition of checkButton under which the button counts as pushed.
IsPressEventLevelOnly(current, expected, old) == current = expected

IsPressEvent(current, expected, old) == current = expected /\ current # old

\* The value checkButton leaves in _oldButtonState.
OldButtonStateOnPushOnly(current, old, pushed) ==
  IF pushed THEN current ELSE old

OldButtonStateAfter(current, old, pushed) == current

\* A push starts the sketch when it is not executing, stops it otherwise.
PressStartsAlways(executing) == TRUE

PressStarts(executing) == ~executing

\* startExecution returns at once when already executing.
StartRunsAlways(executing) == TRUE

StartRuns(executing) == ~executing

\* stopExecution returns at once when not executing.
StopRunsAlways(executing) == TRUE

StopRuns(executing) == executing

\* Index of the first open reference, MAX_NUMBER_OF_CALLBACKS if the scan
\* falls off the end.
LastOpenIndex(refs) ==
  LET open == {i \in ScannedIndexes : refs[i] = TIMER_NOT_AN_EVENT}
  IN  IF open = {} THEN MAX_NUMBER_OF_CALLBACKS
      ELSE CHOOSE i \in open : \A j \in open : i >= j

FirstOpenIndexOrZero(refs) ==
  LET open == {i \in ScannedIndexes : refs[i] = TIMER_NOT_AN_EVENT}
  IN  IF open = {} THEN 0
      ELSE CHOOSE i \in open : \A j \in open : i <= j

FirstOpenIndex(refs) ==
  LET open == {i \in ScannedIndexes : refs[i] = TIMER_NOT_AN_EVENT}
  IN  IF open = {} THEN MAX_NUMBER_OF_CALLBACKS
      ELSE CHOOSE i \in open : \A j \in open : i <= j

\* Index of the first reference equal to callbackId,
\* MAX_NUMBER_OF_CALLBACKS if the scan falls off the end.
FindCallbackIndexFirstSlot(refs, callbackId) ==
  LET hits == {i \in ScannedIndexes : refs[i] = callbackId}
  IN  IF hits = {} THEN MAX_NUMBER_OF_CALLBACKS ELSE 0

FindCallbackIndex(refs, callbackId) ==
  LET hits == {i \in ScannedIndexes : refs[i] = callbackId}
  IN  IF hits = {} THEN MAX_NUMBER_OF_CALLBACKS
      ELSE CHOOSE i \in hits : \A j \in hits : i <= j

\* The references after the loop of setup / stopExecution.
ClearedReferencesButLast(refs) ==
  [i \in Indexes |-> IF i < MAX_NUMBER_OF_CALLBACKS - 1
                     THEN TIMER_NOT_AN_EVENT ELSE refs[i]]

ClearedReferences(refs) ==
  [i \in Indexes |-> IF i < MAX_NUMBER_OF_CALLBACKS THEN TIMER_NOT_AN_EVENT
                     ELSE refs[i]]

\* The ids stopExecution hands to _timer.stop, in order.
StopArgumentsFromSecond(refs) ==
  [k \in 1 .. (MAX_NUMBER_OF_CALLBACKS - 1) |-> refs[k]]

StopArguments(refs) == [k \in 1 .. MAX_NUMBER_OF_CALLBACKS |-> refs[k - 1]]

\* Frequency in hertz to a period in milliseconds.
HertzToMillisRoundedUp(periodInHz) == (1000 + periodInHz - 1) \div periodInHz

HertzToMillis(periodInHz) == 1000 \div periodInHz

----------------------------------------------------------------------------
\* The Timer the executor delegates to.

\* Timer::every hands out an event of the table that is not in use,
\* NO_TIMER_AVAILABLE when every event is in use.
TimerEvery(events) ==
  LET free == {i \in Indexes : events[i] = "NONE"}
  IN  IF free = {} THEN {NO_TIMER_AVAILABLE} ELSE free

TimerRegister(events, id, what) ==
  IF id \in Indexes THEN [events EXCEPT ![id] = what] ELSE events

\* Timer::stop frees the event, ids outside the table are ignored.
TimerStop(events, id) ==
  IF id \in Indexes THEN [events EXCEPT ![id] = "NONE"] ELSE events

RECURSIVE TimerStopAll(_, _)
TimerStopAll(events, ids) ==
  IF ids = <<>> THEN events
  ELSE TimerStopAll(TimerStop(events, Head(ids)), Tail(ids))

----------------------------------------------------------------------------
Frame(hook, caller, level) == [hook |-> hook, caller |-> caller, level |-> level]

Step(op, arg, ret, stops, every, invoked, returned) ==
  [op |-> op, arg |-> arg, ret |-> ret, stops |-> stops, every |-> every,
   invoked |-> invoked, returned |-> returned]

Top == stack[Len(stack)]
Pop == SubSeq(stack, 1, Len(stack) - 1)

\* What the step just taken adds to the record of the hooks invoked, and
\* the first id ever cancelled in the timer where this is recorded.
Observe ==
  /\ lastHook' = IF last'.invoked \in {"sketchStartCallback",
                                        "sketchStopCallback"}
                 THEN last'.invoked ELSE lastHook
  /\ stale' = LET ids == SelectSeq(last'.stops, LAMBDA id : id \in Indexes)
              IN  IF stale = TIMER_NOT_AN_EVENT /\ ids # <<>>
                  THEN Head(ids) ELSE stale

\* State of the statics once the constructor has run.
Init ==
  /\ setupCalled = FALSE
  /\ expectedButtonPressState = 0
  /\ oldButtonState = 0
  /\ isExecuting = FALSE
  /\ callbackReferences = [i \in Indexes |-> 0]
  /\ timerEvents = [i \in Indexes |-> "NONE"]
  /\ stack = <<>>
  /\ last = Step("ButtonExecutor", <<>>, <<>>, <<>>, <<>>, "none", "none")
  /\ pressOdd = FALSE
  /\ abortUsed = FALSE
  /\ lastHook = "none"
  /\ stale = NO_TIMER_AVAILABLE

\* setup up to the call of sketchSetupCallback.
setup(expectedState) ==
  /\ ~setupCalled
  /\ stack = <<>>
  /\ setupCalled' = TRUE
  /\ expectedButtonPressState' = expectedState
  /\ oldButtonState' = Not(expectedState)
  /\ isExecuting' = FALSE
  /\ callbackReferences' = ClearedReferences(callbackReferences)
  /\ stack' = <<Frame("sketchSetupCallback", "setup", LOW)>>
  /\ last' = Step("setup", <<expectedState>>, <<>>, <<>>, <<>>,
                  "sketchSetupCallback", "none")
  /\ UNCHANGED <<timerEvents, pressOdd, abortUsed>>
  /\ Observe

\* startExecution up to the call of sketchStartCallback.
startExecution(op, arg, caller, level) ==
  IF StartRuns(isExecuting)
  THEN /\ stack' = Append(stack, Frame("sketchStartCallback", caller, level))
       /\ last' = Step(op, arg, <<>>, <<>>, <<>>, "sketchStartCallback", "none")
       /\ UNCHANGED <<isExecuting, callbackReferences, timerEvents,
                      oldButtonState>>
  ELSE /\ last' = Step(op, arg, <<>>, <<>>, <<>>, "none", "none")
       /\ oldButtonState' = IF caller = "checkButton"
                            THEN OldButtonStateAfter(level, oldButtonState, TRUE)
                            ELSE oldButtonState
       /\ UNCHANGED <<isExecuting, callbackReferences, timerEvents, stack>>

\* stopExecution up to the call of sketchStopCallback.
stopExecution(op, arg, caller, level) ==
  IF StopRuns(isExecuting)
  THEN /\ timerEvents' = TimerStopAll(timerEvents,
                                      StopArguments(callbackReferences))
       /\ callbackReferences' = ClearedReferences(callbackReferences)
       /\ stack' = Append(stack, Frame("sketchStopCallback", caller, level))
       /\ last' = Step(op, arg, <<>>, StopArguments(callbackReferences), <<>>,
                       "sketchStopCallback", "none")
       /\ UNCHANGED <<isExecuting, oldButtonState>>
  ELSE /\ last' = Step(op, arg, <<>>, <<>>, <<>>, "none", "none")
       /\ oldButtonState' = IF caller = "checkButton"
                            THEN OldButtonStateAfter(level, oldButtonState, TRUE)
                            ELSE oldButtonState
       /\ UNCHANGED <<isExecuting, callbackReferences, timerEvents, stack>>

\* The button's timer event: sample the pin, start or stop on a push.
checkButton(currentButtonState) ==
  IF IsPressEvent(currentButtonState, expectedButtonPressState, oldButtonState)
  THEN /\ pressOdd' = ~pressOdd
       /\ IF PressStarts(isExecuting)
          THEN startExecution("checkButton", <<currentButtonState>>,
                              "checkButton", currentButtonState)
          ELSE stopExecution("checkButton", <<currentButtonState>>,
                             "checkButton", currentButtonState)
  ELSE /\ oldButtonState' = OldButtonStateAfter(currentButtonState,
                                                oldButtonState, FALSE)
       /\ last' = Step("checkButton", <<currentButtonState>>, <<>>, <<>>, <<>>,
                       "none", "none")
       /\ UNCHANGED <<isExecuting, callbackReferences, timerEvents, stack,
                      pressOdd>>

\* loop: _timer.update() runs an event that is due.
loop ==
  /\ stack = <<>>
  /\ \E id \in Indexes :
       \/ /\ timerEvents[id] = "checkButton"
          /\ \E level \in Levels : checkButton(level)
       \/ /\ timerEvents[id] = "callback"
          /\ stack' = <<Frame("callback", "update", LOW)>>
          /\ last' = Step("update", <<id>>, <<>>, <<>>, <<>>, "callback", "none")
          /\ UNCHANGED <<oldButtonState, isExecuting, callbackReferences,
                         timerEvents, pressOdd>>
  /\ UNCHANGED <<setupCalled, expectedButtonPressState, abortUsed>>
  /\ Observe

\* The body shared by callbackEveryByMillis and callbackEveryByHertz.
installCallback(op, arg, periodInMs) ==
  LET index == FirstOpenIndex(callbackReferences)
  IN  IF index = MAX_NUMBER_OF_CALLBACKS
      THEN /\ last' = Step(op, arg, <<CALLBACK_NOT_INSTALLED>>, <<>>, <<>>,
                           "none", "none")
           /\ UNCHANGED <<callbackReferences, timerEvents>>
      ELSE \E id \in TimerEvery(timerEvents) :
             /\ timerEvents' = TimerRegister(timerEvents, id, "callback")
             /\ callbackReferences' = [callbackReferences EXCEPT ![index] = id]
             /\ last' = Step(op, arg, <<id>>, <<>>, <<periodInMs>>,
                             "none", "none")

callbackEveryByMillis ==
  /\ setupCalled
  /\ \E periodInMs \in Periods :
       installCallback("callbackEveryByMillis", <<periodInMs>>, periodInMs)
  /\ UNCHANGED <<setupCalled, expectedButtonPressState, oldButtonState,
                 isExecuting, stack, pressOdd, abortUsed>>
  /\ Observe

callbackEveryByHertzOf(frequencies) ==
  /\ setupCalled
  /\ \E periodInHz \in frequencies :
       installCallback("callbackEveryByHertz", <<periodInHz>>,
                       HertzToMillis(periodInHz))
  /\ UNCHANGED <<setupCalled, expectedButtonPressState, oldButtonState,
                 isExecuting, stack, pressOdd, abortUsed>>
  /\ Observe

callbackEveryByHertz == callbackEveryByHertzOf(Frequencies)

stopCallback ==
  /\ setupCalled
  /\ \E callbackId \in CallbackIds :
       LET index == FindCallbackIndex(callbackReferences, callbackId)
       IN  IF index = MAX_NUMBER_OF_CALLBACKS
           THEN /\ last' = Step("stopCallback", <<callbackId>>,
                                <<CALLBACK_NOT_INSTALLED>>, <<>>, <<>>,
                                "none", "none")
                /\ UNCHANGED <<callbackReferences, timerEvents>>
           ELSE /\ timerEvents' = TimerStop(timerEvents, callbackId)
                /\ callbackReferences' =
                     [callbackReferences EXCEPT ![index] = TIMER_NOT_AN_EVENT]
                /\ last' = Step("stopCallback", <<callbackId>>,
                                <<CALLBACK_STOPPED>>, <<callbackId>>, <<>>,
                                "none", "none")
  /\ UNCHANGED <<setupCalled, expectedButtonPressState, oldButtonState,
                 isExecuting, stack, pressOdd, abortUsed>>
  /\ Observe

abortExecution ==
  /\ setupCalled
  /\ Len(stack) < MaxDepth
  /\ abortUsed' = TRUE
  /\ stopExecution("abortExecution", <<>>, "abortExecution", LOW)
  /\ UNCHANGED <<setupCalled, expectedButtonPressState, pressOdd>>
  /\ Observe

\* The running hook returns and the handler that called it finishes.
hookReturn ==
  /\ stack # <<>>
  /\ stack' = Pop
  /\ \/ /\ Top.hook = "sketchSetupCallback"
        /\ \E id \in TimerEvery(timerEvents) :
             /\ timerEvents' = TimerRegister(timerEvents, id, "checkButton")
             /\ last' = Step("return", <<>>, <<>>, <<>>,
                             <<BUTTON_INTERVAL_MS>>, "none", Top.hook)
        /\ UNCHANGED <<isExecuting, oldButtonState>>
     \/ /\ Top.hook = "sketchStartCallback"
        /\ isExecuting' = TRUE
        /\ oldButtonState' =
             IF Top.caller = "checkButton"
             THEN OldButtonStateAfter(Top.level, oldButtonState, TRUE)
             ELSE oldButtonState
        /\ last' = Step("return", <<>>, <<>>, <<>>, <<>>, "none", Top.hook)
        /\ UNCHANGED timerEvents
     \/ /\ Top.hook = "sketchStopCallback"
        /\ isExecuting' = FALSE
        /\ oldButtonState' =
             IF Top.caller = "checkButton"
             THEN OldButtonStateAfter(Top.level, oldButtonState, TRUE)
             ELSE oldButtonState
        /\ last' = Step("return", <<>>, <<>>, <<>>, <<>>, "none", Top.hook)
        /\ UNCHANGED timerEvents
     \/ /\ Top.hook = "callback"
        /\ last' = Step("return", <<>>, <<>>, <<>>, <<>>, "none", Top.hook)
        /\ UNCHANGED <<isExecuting, oldButtonState, timerEvents>>
  /\ UNCHANGED <<setupCalled, expectedButtonPressState, callbackReferences,
                 pressOdd, abortUsed>>
  /\ Observe

Next ==
  \/ \E expectedState \in Levels : setup(expectedState)
  \/ loop
  \/ callbackEveryByMillis
  \/ callbackEveryByHertz
  \/ stopCallback
  \/ abortExecution
  \/ hookReturn

Spec == Init /\ [][Next]_vars

\* callbackEveryByHertz at every frequency up to MaxHertz, called once in
\* each state setup can return in: the sketchSetupCallback has installed
\* some callbacks, then the button's event was registered.
InitHertz ==
  /\ setupCalled = TRUE
  /\ expectedButtonPressState \in Levels
  /\ oldButtonState = Not(expectedButtonPressState)
  /\ isExecuting = FALSE
  /\ \E installed \in 0 .. MAX_NUMBER_OF_CALLBACKS :
       /\ callbackReferences \in [Indexes -> (TIMER_NOT_AN_EVENT) ..
                                              (MAX_NUMBER_OF_EVENTS - 1)]
       /\ callbackReferences[MAX_NUMBER_OF_EVENTS - 1] = 0
       /\ \A i \in ScannedIndexes :
            IF i < installed THEN callbackReferences[i] \in Indexes
            ELSE callbackReferences[i] = TIMER_NOT_AN_EVENT
       /\ \A i, j \in ScannedIndexes :
            (i < j /\ j < installed)
              => callbackReferences[i] # callbackReferences[j]
  /\ \E button \in Indexes :
       /\ \A i \in ScannedIndexes : callbackReferences[i] # button
       /\ timerEvents =
            [id \in Indexes |->
               IF id = button THEN "checkButton"
               ELSE IF \E i \in ScannedIndexes : callbackReferences[i] = id
                    THEN "callback" ELSE "NONE"]
  /\ stack = <<>>
  /\ last = Step("return", <<>>, <<>>, <<>>, <<BUTTON_INTERVAL_MS>>, "none",
                 "sketchSetupCallback")
  /\ pressOdd = FALSE
  /\ abortUsed = FALSE
  /\ lastHook = "none"
  /\ stale = NO_TIMER_AVAILABLE

callbackEveryByAnyHertz ==
  /\ last.op = "return"
  /\ callbackEveryByHertzOf(AllFrequencies)

NextHertz == callbackEveryByAnyHertz

SpecHertz == InitHertz /\ [][NextHertz]_vars

\* The executor with the first cancelled timer id recorded in stale.
InitStale ==
  /\ setupCalled = FALSE
  /\ expectedButtonPressState = 0
  /\ oldButtonState = 0
  /\ isExecuting = FALSE
  /\ callbackReferences = [i \in Indexes |-> 0]
  /\ timerEvents = [i \in Indexes |-> "NONE"]
  /\ stack = <<>>
  /\ last = Step("ButtonExecutor", <<>>, <<>>, <<>>, <<>>, "none", "none")
  /\ pressOdd = FALSE
  /\ abortUsed = FALSE
  /\ lastHook = "none"
  /\ stale = TIMER_NOT_AN_EVENT

SpecStale == InitStale /\ [][Next]_vars

----------------------------------------------------------------------------
\* Vocabulary of the properties.

Empty(refs) == \A i \in ScannedIndexes : refs[i] = TIMER_NOT_AN_EVENT
Occupied(refs) == {i \in ScannedIndexes : refs[i] # TIMER_NOT_AN_EVENT}

\* The step is a tick of the button's timer event, sampling last'.arg[1].
IsTick == last'.op = "checkButton"
Sampled == last'.arg[1]

\* The tick samples the pressed level and the level before it was different.
EdgeIntoPressed ==
  /\ IsTick
  /\ Sampled = expectedButtonPressState
  /\ Sampled # oldButtonState

----------------------------------------------------------------------------
\* C1: a press while idle performs Start (sketchStartCallback is invoked and
\* isExecuting is true once it has returned), a press while executing
\* performs Stop (sketchStopCallback is invoked and isExecuting is false
\* once it has returned); as long as abortExecution was never called the
\* sketch is executing between handlers exactly after an odd number of
\* presses; and the button's timer event stays registered between handlers,
\* so a further press always acts.
C1_PressToggles ==
  /\ [][(EdgeIntoPressed /\ ~isExecuting)
          => /\ last'.invoked = "sketchStartCallback"
             /\ stack' = Append(stack, Frame("sketchStartCallback",
                                             "checkButton", Sampled))
             /\ ~isExecuting']_vars
  /\ [][(EdgeIntoPressed /\ isExecuting)
          => /\ last'.invoked = "sketchStopCallback"
             /\ stack' = Append(stack, Frame("sketchStopCallback",
                                             "checkButton", Sampled))
             /\ isExecuting']_vars
  /\ [][(last'.op = "return" /\ last'.returned = "sketchStartCallback")
          => isExecuting']_vars
  /\ [][(last'.op = "return" /\ last'.returned = "sketchStopCallback")
          => ~isExecuting']_vars
  /\ []((setupCalled /\ stack = <<>> /\ ~abortUsed)
          => (isExecuting <=> pressOdd))
  /\ []((setupCalled /\ stack = <<>>)
          => \E id \in Indexes : timerEvents[id] = "checkButton")

\* A second press has stopped the sketch again, no abort involved.
C1_Witness ==
  /\ ~abortUsed
  /\ ~pressOdd
  /\ ~isExecuting
  /\ last.op = "return"
  /\ last.returned = "sketchStopCallback"

\* C2: a tick fires a press event (it invokes the start or the stop hook)
\* exactly when the sampled level is the pressed level and differs from the
\* level of the tick before; so none fires on a sustained level or on a
\* release, for either polarity.
C2_PressIffEdge ==
  [][IsTick =>
       /\ (last'.invoked # "none")
            <=> (Sampled = expectedButtonPressState /\ Sampled # oldButtonState)
       /\ (pressOdd' # pressOdd) <=> (last'.invoked # "none")
       /\ (Sampled = oldButtonState) => last'.invoked = "none"
       /\ (Sampled # expectedButtonPressState) => last'.invoked = "none"
       /\ last'.invoked \in {"none", "sketchStartCallback",
                              "sketchStopCallback"}]_vars

\* An active-low button has been pushed a second time.
C2_Witness ==
  /\ expectedButtonPressState = LOW
  /\ last.op = "checkButton"
  /\ last.arg = <<LOW>>
  /\ last.invoked = "sketchStopCallback"

----------------------------------------------------------------------------
\* The step enters stopExecution past its guard.
IsStop == last'.invoked = "sketchStopCallback"
IsInstall == last'.op \in {"callbackEveryByMillis", "callbackEveryByHertz"}
IsStopCallback == last'.op = "stopCallback"
Returned == last'.ret[1]

\* The timer once every handle held by a slot has been cancelled.
Quiesced(events, refs) ==
  [id \in Indexes |->
     IF \E i \in ScannedIndexes : refs[i] = id THEN "NONE" ELSE events[id]]

NoCallbackActive(events) == \A id \in Indexes : events[id] # "callback"

\* C3: every Stop transition cancels and empties every occupied slot before
\* sketchStopCallback is invoked, so no slot is occupied and no callback is
\* active in the timer when the hook starts; and when the transition has
\* completed the registry is empty and isExecuting is false.
C3_StopLeavesRegistryEmpty ==
  /\ [][IsStop => /\ Empty(callbackReferences')
                  /\ NoCallbackActive(timerEvents')]_vars
  /\ [][(last'.op = "return" /\ last'.returned = "sketchStopCallback")
          => (Empty(callbackReferences') /\ ~isExecuting')]_vars

\* C4: whenever the sketch is not executing the registry is empty.
C4_IdleRegistryEmpty ==
  (setupCalled /\ ~isExecuting) => Empty(callbackReferences)

\* C5: abortExecution while executing acts as the Stop of a press does:
\* both cancel the handles of the occupied slots and empty them, then invoke
\* sketchStopCallback once, isExecuting still being true, and isExecuting is
\* false once the hook has returned; the abort changes nothing else.
C5_AbortIsStop ==
  /\ [][((last'.op = "abortExecution" \/ EdgeIntoPressed) /\ isExecuting)
          => /\ callbackReferences' =
                  [i \in Indexes |-> IF i \in ScannedIndexes
                                     THEN TIMER_NOT_AN_EVENT
                                     ELSE callbackReferences[i]]
             /\ timerEvents' = Quiesced(timerEvents, callbackReferences)
             /\ last'.stops =
                  [k \in 1 .. MAX_NUMBER_OF_CALLBACKS |->
                     callbackReferences[k - 1]]
             /\ last'.invoked = "sketchStopCallback"
             /\ Len(stack') = Len(stack) + 1
             /\ stack'[Len(stack')].hook = "sketchStopCallback"
             /\ SubSeq(stack', 1, Len(stack)) = stack
             /\ isExecuting']_vars
  /\ [][(last'.op = "abortExecution" /\ isExecuting)
          => UNCHANGED <<oldButtonState, expectedButtonPressState,
                         setupCalled, pressOdd>>]_vars
  /\ [][(last'.op = "return" /\ last'.returned = "sketchStopCallback")
          => ~isExecuting']_vars

\* An abort has cancelled a full registry.
C5_Witness ==
  /\ last.op = "abortExecution"
  /\ last.invoked = "sketchStopCallback"
  /\ \A k \in 1 .. MAX_NUMBER_OF_CALLBACKS : last.stops[k] \in Indexes
  /\ Empty(callbackReferences)
  /\ NoCallbackActive(timerEvents)

\* C6: with an open slot, an install registers the callback with the timer
\* at the given period, stores the handle in the lowest open slot and
\* returns it; the handle is not CALLBACK_NOT_INSTALLED, was not in use and
\* is held by no other slot; nothing else changes.
C6_InstallUsesFirstOpenSlot ==
  [][IsInstall
       => (Occupied(callbackReferences) # ScannedIndexes
             => \E index \in ScannedIndexes :
                  /\ callbackReferences[index] = TIMER_NOT_AN_EVENT
                  /\ \A j \in ScannedIndexes :
                       j < index => callbackReferences[j] # TIMER_NOT_AN_EVENT
                  /\ Returned # CALLBACK_NOT_INSTALLED
                  /\ Returned \in Indexes
                  /\ timerEvents[Returned] = "NONE"
                  /\ timerEvents' = [timerEvents EXCEPT ![Returned] = "callback"]
                  /\ callbackReferences' =
                       [callbackReferences EXCEPT ![index] = Returned]
                  /\ \A j \in ScannedIndexes :
                       j # index => callbackReferences'[j] # Returned
                  /\ Len(last'.every) = 1
                  /\ UNCHANGED <<isExecuting, stack, oldButtonState>>)]_vars

\* The last open slot has been filled: every slot holds its own handle.
C6_Witness ==
  /\ last.op = "callbackEveryByMillis"
  /\ last.ret # <<CALLBACK_NOT_INSTALLED>>
  /\ Occupied(callbackReferences) = ScannedIndexes
  /\ \A i, j \in ScannedIndexes :
       i # j => callbackReferences[i] # callbackReferences[j]
  /\ callbackReferences[MAX_NUMBER_OF_CALLBACKS - 1] = last.ret[1]

\* C7: with every slot occupied an install returns CALLBACK_NOT_INSTALLED,
\* registers nothing and changes no slot, nor isExecuting; and it returns
\* CALLBACK_NOT_INSTALLED in that case only.
C7_InstallFailsOnlyWhenFull ==
  [][IsInstall =>
       /\ (Occupied(callbackReferences) = ScannedIndexes)
            => /\ Returned = CALLBACK_NOT_INSTALLED
               /\ last'.every = <<>>
               /\ UNCHANGED <<callbackReferences, timerEvents, isExecuting,
                              stack, oldButtonState>>
       /\ (Returned = CALLBACK_NOT_INSTALLED)
            => Occupied(callbackReferences) = ScannedIndexes]_vars

\* An install has been refused.
C7_Witness ==
  /\ last.op \in {"callbackEveryByMillis", "callbackEveryByHertz"}
  /\ last.ret = <<CALLBACK_NOT_INSTALLED>>
  /\ Occupied(callbackReferences) = ScannedIndexes

\* C8: stopCallback of a handle held by a slot cancels that registration
\* only, empties that slot only and returns CALLBACK_STOPPED; no hook is
\* invoked and isExecuting does not change.
C8_StopCallbackFrame ==
  [][IsStopCallback =>
       \A index \in ScannedIndexes :
         (callbackReferences[index] = last'.arg[1]
            /\ last'.arg[1] # TIMER_NOT_AN_EVENT)
         => /\ Returned = CALLBACK_STOPPED
            /\ callbackReferences' =
                 [callbackReferences EXCEPT ![index] = TIMER_NOT_AN_EVENT]
            /\ last'.arg[1] \in Indexes
            /\ timerEvents[last'.arg[1]] = "callback"
            /\ timerEvents' = [timerEvents EXCEPT ![last'.arg[1]] = "NONE"]
            /\ last'.stops = <<last'.arg[1]>>
            /\ last'.invoked = "none"
            /\ UNCHANGED <<isExecuting, stack, oldButtonState>>]_vars

\* One of two registrations has been stopped, the other is still held.
C8_Witness ==
  /\ last.op = "stopCallback"
  /\ last.ret = <<CALLBACK_STOPPED>>
  /\ last.arg[1] \in Indexes
  /\ callbackReferences[0] = TIMER_NOT_AN_EVENT
  /\ callbackReferences[1] \in Indexes
  /\ timerEvents[callbackReferences[1]] = "callback"

\* C9: stopCallback of any value that is not the handle of a registration
\* held by the registry returns CALLBACK_NOT_INSTALLED, cancels nothing and
\* changes no slot.
C9_UnknownIdNotInstalled ==
  [][(IsStopCallback
        /\ ~\E index \in ScannedIndexes :
              /\ callbackReferences[index] = last'.arg[1]
              /\ last'.arg[1] # TIMER_NOT_AN_EVENT)
       => /\ Returned = CALLBACK_NOT_INSTALLED
          /\ last'.stops = <<>>
          /\ UNCHANGED callbackReferences]_vars

\* startExecution called when already executing.
StartWhileExecuting ==
  /\ isExecuting
  /\ startExecution("startExecution", <<>>, "none", LOW)
  /\ UNCHANGED <<setupCalled, expectedButtonPressState, pressOdd, abortUsed>>
  /\ Observe

\* C10: startExecution while executing invokes no hook and changes neither
\* isExecuting nor a slot; abortExecution (stopExecution) while not
\* executing invokes no hook, cancels nothing and leaves isExecuting, the
\* slots, the timer and oldButtonState as they are.
C10_RedundantTransitions ==
  /\ [](isExecuting
          => ~ENABLED (/\ StartWhileExecuting
                       /\ \/ last'.invoked # "none"
                          \/ isExecuting' # isExecuting
                          \/ callbackReferences' # callbackReferences
                          \/ timerEvents' # timerEvents
                          \/ stack' # stack))
  /\ [][(last'.op = "abortExecution" /\ ~isExecuting)
          => /\ last'.invoked = "none"
             /\ last'.stops = <<>>
             /\ UNCHANGED <<isExecuting, callbackReferences, timerEvents,
                            oldButtonState, stack>>]_vars

\* An abort while idle has left a registration in place.
C10_Witness ==
  /\ last.op = "abortExecution"
  /\ last.invoked = "none"
  /\ ~isExecuting
  /\ stack = <<>>
  /\ ~Empty(callbackReferences)

----------------------------------------------------------------------------
\* C11: no public operation recurses without bound when hooks call the public
\* operations: a handler never invokes a hook that is already running, so the
\* nesting of hooks stays below the number of hooks.
C11_NoHookReentered ==
  \A i, j \in DOMAIN stack : i # j => stack[i].hook # stack[j].hook

\* C12: sketchStartCallback and sketchStopCallback are invoked in strict
\* alternation, beginning with sketchStartCallback: a start is invoked only
\* first or after a stop, a stop only after a start that has returned.
C12_HooksAlternate ==
  /\ [][(last'.invoked = "sketchStartCallback")
          => lastHook \in {"none", "sketchStopCallback"}]_vars
  /\ [][(last'.invoked = "sketchStopCallback")
          => /\ lastHook = "sketchStartCallback"
             /\ \A k \in DOMAIN stack :
                  stack[k].hook # "sketchStartCallback"]_vars

\* C13: for every frequency from 1 to MaxHertz, callbackEveryByHertz acts as
\* callbackEveryByMillis does with the period 1000 div Hz (truncating): the
\* same return value, the same slot update and the same timer registration.
C13_HertzIsMillis ==
  [][(last'.op = "callbackEveryByHertz")
       => /\ last'.arg[1] \in 1 .. MaxHertz
          /\ installCallback("callbackEveryByHertz", last'.arg,
                             1000 \div last'.arg[1])
          /\ last'.every \in {<<>>, <<1000 \div last'.arg[1]>>}
          /\ UNCHANGED <<isExecuting, stack, oldButtonState>>]_vars

\* Four times a second has been registered as every 250 ms.
C13_Witness ==
  /\ last.op = "callbackEveryByHertz"
  /\ last.arg = <<4>>
  /\ last.every = <<250>>
  /\ last.ret[1] \in Indexes
  /\ \E i \in ScannedIndexes : callbackReferences[i] = last.ret[1]

\* C14: every tick leaves the sampled level in oldButtonState, at once when
\* no press event fires and when the hook of the press has returned
\* otherwise; a tick without a press event changes nothing else and invokes
\* no hook.
C14_TickRecordsLevel ==
  /\ [][(IsTick /\ ~(Sampled = expectedButtonPressState
                      /\ Sampled # oldButtonState))
          => /\ oldButtonState' = Sampled
             /\ last'.invoked = "none"
             /\ last'.stops = <<>>
             /\ last'.every = <<>>
             /\ UNCHANGED <<isExecuting, callbackReferences, timerEvents,
                            stack, expectedButtonPressState>>]_vars
  /\ [][(IsTick /\ Sampled = expectedButtonPressState
                /\ Sampled # oldButtonState)
          => /\ stack' # <<>>
             /\ stack'[Len(stack')].caller = "checkButton"
             /\ stack'[Len(stack')].level = Sampled]_vars
  /\ [][(last'.op = "return" /\ stack # <<>>
           /\ stack[Len(stack)].caller = "checkButton")
          => oldButtonState' = stack[Len(stack)].level]_vars

\* The button has been released while the sketch executes.
C14_Witness ==
  /\ last.op = "checkButton"
  /\ last.invoked = "none"
  /\ oldButtonState = last.arg[1]
  /\ oldButtonState # expectedButtonPressState
  /\ isExecuting
  /\ ~Empty(callbackReferences)

\* C15: setup leaves the sketch idle with oldButtonState the complement of
\* expectedButtonPressState, for both polarities, and this lasts until the
\* first press; so the first tick that samples the pressed level invokes
\* sketchStartCallback.
C15_FirstPressStarts ==
  /\ []((setupCalled /\ lastHook = "none")
          => /\ ~isExecuting
             /\ \/ expectedButtonPressState = HIGH /\ oldButtonState = LOW
                \/ expectedButtonPressState = LOW /\ oldButtonState = HIGH)
  /\ [][(IsTick /\ lastHook = "none" /\ Sampled = expectedButtonPressState)
          => /\ last'.invoked = "sketchStartCallback"
             /\ lastHook' = "sketchStartCallback"]_vars

\* The first press of an active-low button is being served.
C15_Witness ==
  /\ expectedButtonPressState = LOW
  /\ last.op = "checkButton"
  /\ last.arg = <<LOW>>
  /\ last.invoked = "sketchStartCallback"
  /\ pressOdd
  /\ oldButtonState = HIGH
  /\ ~isExecuting

\* C16: setup invokes sketchSetupCallback once, with every slot reset and
\* the button's timer event not yet registered; the event is registered when
\* the hook returns; until then there is no press, and neither
\* sketchStartCallback nor sketchStopCallback has been invoked.
C16_SetupHookFirst ==
  /\ [][(last'.op = "setup")
          => /\ last'.invoked = "sketchSetupCallback"
             /\ Empty(callbackReferences')
             /\ stack' = <<Frame("sketchSetupCallback", "setup", LOW)>>
             /\ \A id \in Indexes : timerEvents'[id] # "checkButton"]_vars
  /\ [][(last'.invoked = "sketchSetupCallback")
          => (~setupCalled /\ last'.op = "setup")]_vars
  /\ []((~setupCalled \/ (stack # <<>>
                           /\ stack[1].hook = "sketchSetupCallback"))
          => /\ \A id \in Indexes : timerEvents[id] # "checkButton"
             /\ lastHook = "none"
             /\ ~pressOdd
             /\ ~isExecuting
             /\ last.op # "checkButton")
  /\ [][(last'.op = "return" /\ last'.returned = "sketchSetupCallback")
          => /\ last'.every = <<BUTTON_INTERVAL_MS>>
             /\ \E id \in Indexes :
                  /\ timerEvents[id] = "NONE"
                  /\ timerEvents' = [timerEvents EXCEPT ![id] = "checkButton"]]_vars

\* The setup hook has installed a callback and returned; the button is polled.
C16_Witness ==
  /\ last.op = "return"
  /\ last.returned = "sketchSetupCallback"
  /\ stack = <<>>
  /\ ~Empty(callbackReferences)
  /\ \E id \in Indexes : timerEvents[id] = "checkButton"

\* C17: once a timer id has been cancelled (by stopCallback or by the clear
\* of a stop), stopCallback of that stale id returns CALLBACK_NOT_INSTALLED
\* and cancels no registration, whatever was installed since.
C17_StaleIdIsNoOp ==
  [][(IsStopCallback /\ stale \in Indexes /\ last'.arg[1] = stale)
       => /\ Returned = CALLBACK_NOT_INSTALLED
          /\ last'.stops = <<>>
          /\ UNCHANGED <<callbackReferences, timerEvents>>]_vars

\* C18: isExecuting is false while sketchStartCallback runs; an
\* abortExecution made inside it invokes no hook, cancels nothing and leaves
\* every slot; and when sketchStartCallback returns isExecuting becomes true
\* with the slots and the timer as the hook left them.
C18_AbortInsideStart ==
  /\ []((\E k \in DOMAIN stack : stack[k].hook = "sketchStartCallback")
          => (~isExecuting /\ Len(stack) = 1))
  /\ [][(last'.op = "abortExecution" /\ stack # <<>>
           /\ stack[Len(stack)].hook = "sketchStartCallback")
          => /\ last'.invoked = "none"
             /\ last'.stops = <<>>
             /\ UNCHANGED <<isExecuting, callbackReferences, timerEvents,
                            stack, oldButtonState>>]_vars
  /\ [][(last'.op = "return" /\ last'.returned = "sketchStartCallback")
          => /\ isExecuting'
             /\ stack' = <<>>
             /\ UNCHANGED <<callbackReferences, timerEvents>>]_vars

\* An abort was called in a start hook that has installed a callback.
C18_Witness ==
  /\ last.op = "abortExecution"
  /\ stack = <<Frame("sketchStartCallback", "checkButton",
                     expectedButtonPressState)>>
  /\ lastHook = "sketchStartCallback"
  /\ ~Empty(callbackReferences)
  /\ ~NoCallbackActive(timerEvents)

\* The timer ids held by occupied slots.
Held(refs) == {refs[i] : i \in Occupied(refs)}
ButtonEvents(events) == {id \in Indexes : events[id] = "checkButton"}
SetupCompleted ==
  setupCalled /\ (stack = <<>> \/ stack[1].hook # "sketchSetupCallback")

\* C19: once setup has registered the button's timer event, no install,
\* stopCallback (whatever its argument), stop or abort cancels it, and its
\* id is never held by a slot.
C19_ButtonStaysPolled ==
  /\ [](SetupCompleted
          => /\ Cardinality(ButtonEvents(timerEvents)) = 1
             /\ ButtonEvents(timerEvents) \cap Held(callbackReferences) = {})
  /\ [][\A id \in Indexes :
          timerEvents[id] = "checkButton" => timerEvents'[id] = "checkButton"]_vars

\* A full registry has been cleared by a stop and the button is still polled.
C19_Witness ==
  /\ SetupCompleted
  /\ last.invoked = "sketchStopCallback"
  /\ \A k \in 1 .. MAX_NUMBER_OF_CALLBACKS : last.stops[k] \in Indexes
  /\ Cardinality(ButtonEvents(timerEvents)) = 1

\* C20: once setup has completed, the registrations active in the timer are
\* the button's event and the handles held by occupied slots, no two slots
\* hold the same handle, and the slots never outnumber the events left to
\* them.
C20_TimerMatchesRegistry ==
  SetupCompleted
    => /\ Cardinality(ButtonEvents(timerEvents)) = 1
       /\ {id \in Indexes : timerEvents[id] = "callback"}
            = Held(callbackReferences)
       /\ \A i, j \in Occupied(callbackReferences) :
            i # j => callbackReferences[i] # callbackReferences[j]
       /\ Cardinality(Occupied(callbackReferences)) <= MAX_NUMBER_OF_EVENTS - 1
       /\ Cardinality({id \in Indexes : timerEvents[id] # "NONE"})
            <= MAX_NUMBER_OF_EVENTS

\* The timer is full: the button's event and one callback per slot.
C20_Witness ==
  /\ SetupCompleted
  /\ Occupied(callbackReferences) = ScannedIndexes
  /\ \A id \in Indexes : timerEvents[id] # "NONE"
  /\ last.op = "stopCallback"
  /\ last.ret = <<CALLBACK_NOT_INSTALLED>>

====
